---- MODULE Spec2Model ----
(***************************************************************************)
(* Model of the IOS-Map scripts:                                           *)
(*   dedupe_ios_csv.py : normalize_text and the drop_duplicates main       *)
(*   excel-to-map.py   : fix_encoding, strip_suite, load_and_clean,        *)
(*                       geocode_addresses (cache + RateLimiter), main     *)
(* A text is a sequence of Unicode code points (naturals); a byte string   *)
(* is a sequence of naturals below 256.                                    *)
(***************************************************************************)
EXTENDS Integers, Sequences, FiniteSets, TLC

VARIABLES
    pc,        \* position of the script being run
    x,         \* dedupe_ios_csv: text handed to normalize_text
    y,         \* normalize_text(x)
    z,         \* normalize_text(y)
    csv,       \* dedupe_ios_csv: the rows of the file at CSV_PATH
    csvRead,   \* the rows main read from it, with their row labels
    df,        \* the frame main holds
    before,    \* dedupe_ios_csv: len(df) before drop_duplicates
    after,     \* dedupe_ios_csv: len(df) after drop_duplicates
    caller,    \* excel-to-map: "main", or "direct" for a bare geocode_addresses
    run,       \* number of the run of excel-to-map.main
    batch,     \* the frame handed to geocode_addresses
    existing_cache, \* the existing_cache handed to geocode_addresses
    cache,     \* geocode_addresses: the cache dict
    i,         \* rows the geocoding loop has finished
    lats,      \* geocode_addresses: lats
    lons,      \* geocode_addresses: lons
    addr,      \* geocode_one: the trimmed query being resolved
    retry,     \* RateLimiter: index of the current try
    sinceLast, \* RateLimiter: time since _last_call, capped at min_delay
    waited,    \* time slept before each provider request of the last query
    calls,     \* geocode(addr) calls made in this batch, per query
    lookups,   \* cache membership tests made in this batch
    last,      \* how the last geocode_one call ended
    df_failed, \* geocode_addresses: df_failed
    coordsFile,   \* the file at OUTPUT_CSV_WITH_COORDS
    failuresFile, \* the file geocode_failures.csv
    groups,    \* build_map: the feature groups added to the map
    resolved1, \* the queries the first run resolved
    stubbed    \* every provider request so far returned StubLocation

vars ==
    <<pc, x, y, z, csv, csvRead, df, before, after, caller, run, batch,
      existing_cache, cache, i, lats, lons, addr, retry, sinceLast, waited, calls, lookups,
      last, df_failed, coordsFile, failuresFile, groups, resolved1, stubbed>>

normVars == <<x, y, z>>
dedupeVars == <<csv, csvRead, before, after>>
limiterVars == <<addr, retry, sinceLast, waited>>
loopVars == <<cache, i, lats, lons, calls, lookups, last, stubbed>>
geoVars ==
    <<batch, existing_cache, limiterVars, loopVars, df_failed, failuresFile>>
mainVars == <<caller, run, coordsFile, groups, resolved1>>

(***************************************************************************)
(* Text literals                                                           *)
(***************************************************************************)
\* code points of the ASCII characters used in literals
Digits == <<"0", "1", "2", "3", "4", "5", "6", "7", "8", "9">>

Capitals ==
    << "A", "B", "C", "D", "E", "F", "G", "H", "I", "J", "K", "L", "M",
       "N", "O", "P", "Q", "R", "S", "T", "U", "V", "W", "X", "Y", "Z" >>

Smalls ==
    << "a", "b", "c", "d", "e", "f", "g", "h", "i", "j", "k", "l", "m",
       "n", "o", "p", "q", "r", "s", "t", "u", "v", "w", "x", "y", "z" >>

Symbols ==
    [c \in {" ", "!", "#", "'", ",", "-", ".", "|"} |->
        CASE c = " " -> 32 [] c = "!" -> 33 [] c = "#" -> 35
          [] c = "'" -> 39 [] c = "," -> 44 [] c = "-" -> 45
          [] c = "." -> 46 [] c = "|" -> 124]

Pos(t, ch) == CHOOSE k \in 1..Len(t) : t[k] = ch

Ord(ch) ==
    IF ch \in DOMAIN Symbols THEN Symbols[ch]
    ELSE IF \E k \in 1..10 : Digits[k] = ch THEN 47 + Pos(Digits, ch)
    ELSE IF \E k \in 1..26 : Capitals[k] = ch THEN 64 + Pos(Capitals, ch)
    ELSE 96 + Pos(Smalls, ch)

\* the text whose characters are the one-character strings of t
Lit(t) == [k \in 1..Len(t) |-> Ord(t[k])]

(***************************************************************************)
(* Character classes of Python's str and re (Unicode patterns)             *)
(***************************************************************************)
\* str.isspace and the regex class \s agree on these code points
IsSpace(c) ==
    \/ c \in 9..13
    \/ c \in 28..32
    \/ c \in {133, 160, 5760, 8232, 8233, 8239, 8287, 12288}
    \/ c \in 8192..8202

\* the regex class \w on the Latin-1 range (every text read with
\* encoding="latin1" lies in it); the dashes and quotes above it that
\* fix_encoding can produce are punctuation
IsWord(c) ==
    \/ c \in 48..57
    \/ c \in 65..90
    \/ c = 95
    \/ c \in 97..122
    \/ c \in {170, 178, 179, 181, 185, 186, 188, 189, 190}
    \/ c \in 192..214
    \/ c \in 216..246
    \/ c \in 248..255

\* str.lower on the Latin-1 range
Lower(c) ==
    IF c \in 65..90 \/ c \in 192..214 \/ c \in 216..222 THEN c + 32 ELSE c

LowerText(s) == [k \in 1..Len(s) |-> Lower(s[k])]

RECURSIVE LStrip(_)
LStrip(s) ==
    IF s # <<>> /\ IsSpace(Head(s)) THEN LStrip(Tail(s)) ELSE s

RECURSIVE RStrip(_)
RStrip(s) ==
    IF s # <<>> /\ IsSpace(s[Len(s)]) THEN RStrip(SubSeq(s, 1, Len(s) - 1))
    ELSE s

\* str.strip()
Strip(s) == RStrip(LStrip(s))

\* number of leading characters of s that are whitespace
RECURSIVE SpaceRun(_)
SpaceRun(s) ==
    IF s # <<>> /\ IsSpace(Head(s)) THEN 1 + SpaceRun(Tail(s)) ELSE 0

Drop(s, n) == SubSeq(s, n + 1, Len(s))

(***************************************************************************)
(* dedupe_ios_csv.py                                                       *)
(***************************************************************************)
\* values that are not texts, kept apart from every text by a code point no
\* character has: Python's None, and the float nan of a missing cell
None == <<-1>>
NaN == <<-2>>

\* str(s) of a cell: a text is itself, a missing cell (float nan) is "nan"
Str(s) == IF s = NaN THEN Lit(<<"n", "a", "n">>) ELSE s

\* re.sub(r"[^\w\s]", "", s)
RemovePunctuation(s) ==
    SelectSeq(s, LAMBDA c : IsWord(c) \/ IsSpace(c))

\* re.sub(r"\s+", " ", s)
RECURSIVE CollapseWhitespace(_)
CollapseWhitespace(s) ==
    IF s = <<>> THEN <<>>
    ELSE IF IsSpace(Head(s))
         THEN <<32>> \o CollapseWhitespace(Drop(s, SpaceRun(s)))
         ELSE <<Head(s)>> \o CollapseWhitespace(Tail(s))

normalize_text(s) ==
    IF s = None THEN <<>>
    ELSE CollapseWhitespace(RemovePunctuation(Strip(LowerText(Str(s)))))

\* pd.read_csv: the rows of the file, labelled 1, 2, ... in file order
ReadCsv(rows) ==
    [k \in 1..Len(rows) |-> [row |-> k] @@ rows[k]]

\* df["_dedupe_key"] of one row
DedupeKey(r) ==
    normalize_text(r.Address) \o <<Ord("|")>> \o normalize_text(r.State)

\* DataFrame.drop_duplicates(subset="_dedupe_key", keep="last")
RECURSIVE DropDuplicatesKeepLast(_)
DropDuplicatesKeepLast(rows) ==
    IF rows = <<>> THEN <<>>
    ELSE LET r == Head(rows)
             rest == Tail(rows)
         IN  IF \E k \in 1..Len(rest) : DedupeKey(rest[k]) = DedupeKey(r)
             THEN DropDuplicatesKeepLast(rest)
             ELSE <<r>> \o DropDuplicatesKeepLast(rest)

\* DataFrame.drop_duplicates(subset="_dedupe_key", keep="first")
RECURSIVE DropDuplicates(_)
DropDuplicates(rows) ==
    IF rows = <<>> THEN <<>>
    ELSE LET r == rows[Len(rows)]
             front == SubSeq(rows, 1, Len(rows) - 1)
         IN  IF \E k \in 1..Len(front) : DedupeKey(front[k]) = DedupeKey(r)
             THEN DropDuplicates(front)
             ELSE Append(DropDuplicates(front), r)

\* DataFrame.to_csv(path, index=False): the rows without their labels
ToCsv(rows) ==
    [k \in 1..Len(rows) |->
        [Address |-> rows[k].Address, State |-> rows[k].State]]

(***************************************************************************)
(* excel-to-map.py: fix_encoding                                           *)
(***************************************************************************)
\* the outcome of an encode or decode that raised
CodecError == <<-3>>

\* str.encode("latin1"): one byte per character, none above U+00FF
Latin1Encode(s) ==
    IF \E k \in 1..Len(s) : s[k] > 255 THEN CodecError ELSE s

\* bytes.decode("latin1"), the encoding every pd.read_csv call here uses
Latin1Decode(bs) == bs

\* length of the UTF-8 sequence a lead byte opens, 0 for an invalid lead
Utf8Length(b) ==
    IF b < 128 THEN 1
    ELSE IF b \in 194..223 THEN 2
    ELSE IF b \in 224..239 THEN 3
    ELSE IF b \in 240..244 THEN 4
    ELSE 0

IsContinuation(b) == b \in 128..191

\* the second byte a lead byte admits (no overlong form, no surrogate,
\* nothing above U+10FFFF)
SecondByteOk(b, c) ==
    CASE b = 224 -> c \in 160..191
      [] b = 237 -> c \in 128..159
      [] b = 240 -> c \in 144..191
      [] b = 244 -> c \in 128..143
      [] OTHER -> IsContinuation(c)

\* bytes.decode("utf8"), strict
RECURSIVE Utf8Decode(_)
Utf8Decode(bs) ==
    IF bs = <<>> THEN <<>>
    ELSE LET b == Head(bs)
             n == Utf8Length(b)
         IN  IF n = 0 \/ Len(bs) < n THEN CodecError
             ELSE IF n >= 2 /\ ~SecondByteOk(b, bs[2]) THEN CodecError
             ELSE IF \E k \in 3..n : ~IsContinuation(bs[k]) THEN CodecError
             ELSE LET cp == CASE n = 1 -> b
                              [] n = 2 -> (b - 192) * 64 + (bs[2] - 128)
                              [] n = 3 -> (b - 224) * 4096
                                          + (bs[2] - 128) * 64 + (bs[3] - 128)
                              [] n = 4 -> (b - 240) * 262144
                                          + (bs[2] - 128) * 4096
                                          + (bs[3] - 128) * 64 + (bs[4] - 128)
                      rest == Utf8Decode(Drop(bs, n))
                  IN  IF rest = CodecError THEN CodecError
                      ELSE <<cp>> \o rest

\* str.encode("utf-8"), the encoding DataFrame.to_csv writes
RECURSIVE Utf8Encode(_)
Utf8Encode(s) ==
    IF s = <<>> THEN <<>>
    ELSE LET c == Head(s)
             bytes ==
                 IF c < 128 THEN <<c>>
                 ELSE IF c < 2048 THEN <<192 + (c \div 64), 128 + (c % 64)>>
                 ELSE IF c < 65536
                      THEN <<224 + (c \div 4096), 128 + ((c \div 64) % 64),
                             128 + (c % 64)>>
                 ELSE <<240 + (c \div 262144), 128 + ((c \div 4096) % 64),
                        128 + ((c \div 64) % 64), 128 + (c % 64)>>
         IN  bytes \o Utf8Encode(Tail(s))

IsPrefix(p, s) == Len(p) <= Len(s) /\ SubSeq(s, 1, Len(p)) = p

\* str.replace(bad, good): every occurrence, left to right, not overlapping
RECURSIVE Replace(_, _, _)
Replace(s, bad, good) ==
    IF s = <<>> THEN <<>>
    ELSE IF IsPrefix(bad, s)
         THEN good \o Replace(Drop(s, Len(bad)), bad, good)
         ELSE <<Head(s)>> \o Replace(Tail(s), bad, good)

\* the replacements dict, in insertion order
replacements ==
    << <<<<195, 131, 194, 162, 195, 130, 194, 128, 195, 130, 194, 145>>,
         <<45>>>>,
       <<<<195, 162, 194, 128, 194, 145>>, <<45>>>>,
       <<<<45>>, <<45>>>>,
       <<<<226, 128, 147>>, <<45>>>>,
       <<<<226, 128, 148>>, <<45>>>>,
       <<<<195, 131, 194, 162, 195, 130, 194, 128, 195, 130, 194, 153>>,
         <<39>>>>,
       <<<<195, 162, 194, 128, 194, 153>>, <<39>>>>,
       <<<<226, 128, 153>>, <<39>>>> >>

RECURSIVE ApplyReplacements(_, _)
ApplyReplacements(s, k) ==
    IF k > Len(replacements) THEN s
    ELSE ApplyReplacements(
             Replace(s, replacements[k][1], replacements[k][2]), k + 1)

\* number of leading characters of s that are not whitespace
RECURSIVE TokenRun(_)
TokenRun(s) ==
    IF s # <<>> /\ ~IsSpace(Head(s)) THEN 1 + TokenRun(Tail(s)) ELSE 0

\* str.split(): the maximal runs of characters that are not whitespace
RECURSIVE Split(_)
Split(s) ==
    IF s = <<>> THEN <<>>
    ELSE IF IsSpace(Head(s)) THEN Split(Drop(s, SpaceRun(s)))
    ELSE <<SubSeq(s, 1, TokenRun(s))>> \o Split(Drop(s, TokenRun(s)))

\* sep.join(parts)
RECURSIVE Join(_, _)
Join(sep, parts) ==
    IF parts = <<>> THEN <<>>
    ELSE IF Len(parts) = 1 THEN parts[1]
    ELSE parts[1] \o sep \o Join(sep, Tail(parts))

\* the latin1 -> utf8 round trip, kept only when neither step raises
Roundtrip(s) ==
    LET bytes == Latin1Encode(s)
        s2 == IF bytes = CodecError THEN CodecError ELSE Utf8Decode(bytes)
    IN  IF s2 = CodecError THEN s ELSE s2

IsStr(s) == s # None /\ s # NaN

fix_encoding(s) ==
    IF ~IsStr(s) THEN s
    ELSE Join(<<32>>, Split(ApplyReplacements(Roundtrip(s), 1)))

(***************************************************************************)
(* excel-to-map.py: strip_suite                                            *)
(***************************************************************************)
\* the alternatives of (Suite|Ste\.?|Unit|Bldg\.?|Building), each optional
\* full stop spelled out
SuiteKeywords ==
    { Lit(<<"S", "u", "i", "t", "e">>),
      Lit(<<"S", "t", "e", ".">>),
      Lit(<<"S", "t", "e">>),
      Lit(<<"U", "n", "i", "t">>),
      Lit(<<"B", "l", "d", "g", ".">>),
      Lit(<<"B", "l", "d", "g">>),
      Lit(<<"B", "u", "i", "l", "d", "i", "n", "g">>) }

\* kw matches the start of s under re.IGNORECASE
IsPrefixIgnoreCase(kw, s) ==
    /\ Len(kw) <= Len(s)
    /\ \A k \in 1..Len(kw) : Lower(s[k]) = Lower(kw[k])

\* \b after the first n characters of s (n >= 1)
WordBoundaryAfter(s, n) ==
    IsWord(s[n]) # (n < Len(s) /\ IsWord(s[n + 1]))

\* number of leading characters of s that are not a comma: [^,]*
RECURSIVE NonCommaRun(_)
NonCommaRun(s) ==
    IF s # <<>> /\ Head(s) # 44 THEN 1 + NonCommaRun(Tail(s)) ELSE 0

\* length of the match of ,\s*(Suite|Ste\.?|Unit|Bldg\.?|Building)\b[^,]*
\* at the start of s, 0 when it does not match there
SuiteMatch(s) ==
    IF s = <<>> \/ Head(s) # 44 THEN 0
    ELSE LET gap == 1 + SpaceRun(Tail(s))
             t == Drop(s, gap)
         IN  IF \E kw \in SuiteKeywords :
                    IsPrefixIgnoreCase(kw, t) /\ WordBoundaryAfter(t, Len(kw))
             THEN gap + NonCommaRun(t)
             ELSE 0

RECURSIVE RemoveSuiteFragments(_)
RemoveSuiteFragments(s) ==
    IF s = <<>> THEN <<>>
    ELSE IF SuiteMatch(s) > 0
         THEN RemoveSuiteFragments(Drop(s, SuiteMatch(s)))
         ELSE <<Head(s)>> \o RemoveSuiteFragments(Tail(s))

\* number of leading characters of s that are word characters: \w*
RECURSIVE WordRun(_)
WordRun(s) ==
    IF s # <<>> /\ IsWord(Head(s)) THEN 1 + WordRun(Tail(s)) ELSE 0

\* length of the match of #\s*\w+ at the start of s, 0 when there is none
HashMatch(s) ==
    IF s = <<>> \/ Head(s) # 35 THEN 0
    ELSE LET gap == 1 + SpaceRun(Tail(s))
             word == WordRun(Drop(s, gap))
         IN  IF word > 0 THEN gap + word ELSE 0

RECURSIVE RemoveHashFragments(_)
RemoveHashFragments(s) ==
    IF s = <<>> THEN <<>>
    ELSE IF HashMatch(s) > 0
         THEN RemoveHashFragments(Drop(s, HashMatch(s)))
         ELSE <<Head(s)>> \o RemoveHashFragments(Tail(s))

\* re.sub(r"\s{2,}", " ", s)
RECURSIVE CollapseSpaces(_)
CollapseSpaces(s) ==
    IF s = <<>> THEN <<>>
    ELSE IF SpaceRun(s) >= 2
         THEN <<32>> \o CollapseSpaces(Drop(s, SpaceRun(s)))
         ELSE <<Head(s)>> \o CollapseSpaces(Tail(s))

\* re.sub(r"[,\s]+$", "", s)
RECURSIVE StripTrailingCommas(_)
StripTrailingCommas(s) ==
    IF s # <<>> /\ (s[Len(s)] = 44 \/ IsSpace(s[Len(s)]))
    THEN StripTrailingCommas(SubSeq(s, 1, Len(s) - 1))
    ELSE s

strip_suite(address) ==
    IF ~IsStr(address) THEN address
    ELSE StripTrailingCommas(Strip(CollapseSpaces(
             RemoveHashFragments(RemoveSuiteFragments(
                 fix_encoding(address))))))

(***************************************************************************)
(* excel-to-map.py: load_and_clean                                         *)
(***************************************************************************)
EXPECTED_COLS == <<"Tenant", "Location", "Address", "City", "State">>

\* df[col].astype(str).str.strip().apply(fix_encoding) with the cleaned
\* Address replaced by its suite-stripped form
CleanCellSimplified(col, cell) ==
    IF col = "Address" THEN strip_suite(Strip(Str(cell)))
    ELSE fix_encoding(Strip(Str(cell)))

\* df[col].astype(str).str.strip().apply(fix_encoding)
CleanCell(col, cell) == fix_encoding(Strip(Str(cell)))

CommaSpace == <<44, 32>>

\* the tail ", USA" of every full_address
CountrySuffix == Lit(<<",", " ", "U", "S", "A">>)

\* one row of the frame load_and_clean returns; row is the position of the
\* row in the file and stands for the row's identity
CleanRow(k, r) ==
    LET cleaned == [col \in {EXPECTED_COLS[c] : c \in 1..Len(EXPECTED_COLS)}
                        |-> CleanCell(col, r[col])]
        clean_address == strip_suite(cleaned.Address)
    IN  cleaned @@
        [ row |-> k,
          clean_address |-> clean_address,
          full_address |-> clean_address \o CommaSpace \o cleaned.City
                           \o CommaSpace \o cleaned.State \o CountrySuffix ]

\* the first row repeats the header: "Tenant" and "Location" are among its
\* cells
LooksLikeHeaders(r) ==
    LET first_row_values ==
            {Strip(Str(r[EXPECTED_COLS[c]])) : c \in 1..Len(EXPECTED_COLS)}
    IN  /\ Lit(<<"T", "e", "n", "a", "n", "t">>) \in first_row_values
        /\ Lit(<<"L", "o", "c", "a", "t", "i", "o", "n">>)
               \in first_row_values

\* the rows left once a first row that repeats the header is dropped
Body(rows) == IF LooksLikeHeaders(rows[1]) THEN Tail(rows) ELSE rows

\* load_and_clean on a file whose rows carry the five expected columns
load_and_clean(rows) ==
    [k \in 1..Len(Body(rows)) |-> CleanRow(k, Body(rows)[k])]

(***************************************************************************)
(* excel-to-map.py: geocode_addresses                                      *)
(***************************************************************************)
\* RateLimiter(geolocator.geocode, min_delay_seconds=1, max_retries=3,
\*             error_wait_seconds=5, swallow_exceptions=True)
min_delay_seconds == 1
max_retries == 3
error_wait_seconds == 5

\* the exceptions RateLimiter retries (the GeocoderServiceError family) and
\* those it lets through to geocode_one at once
RetriedErrors == {"GeocoderUnavailable", "GeocoderTimedOut"}
OtherErrors == {"ConnectionError", "ValueError"}

\* the try with index retry is the last one: tries 0 .. max_retries are
\* made, max_retries of them retries
IsLastTryOneLater(k) == k >= max_retries + 1

IsLastTry(k) == k >= max_retries

\* the except clauses of geocode_one without the final "except Exception"
CaughtNamedOnly(kind) ==
    kind \in {"GeocoderUnavailable", "GeocoderTimedOut", "ConnectionError"}

\* the except clauses of geocode_one: the three named classes, then every
\* other Exception
Caught(kind) ==
    \/ kind \in {"GeocoderUnavailable", "GeocoderTimedOut", "ConnectionError"}
    \/ kind \in RetriedErrors \cup OtherErrors

\* addr = (addr or "").strip() without the strip
QueryUntrimmed(raw) == IF raw = None THEN <<>> ELSE raw

\* addr = (addr or "").strip()
Query(raw) == Strip(IF raw = None THEN <<>> ELSE raw)

\* result of a geocode(addr) call that returned loc (a location or None)
ResultOf(loc) ==
    IF loc.kind = "location" THEN <<loc.latitude, loc.longitude>>
    ELSE <<None, None>>

\* cache[addr] = result, done only for a result with coordinates
StoreResolvedOnly(dict, key, result) ==
    IF result = <<None, None>> THEN dict ELSE (key :> result) @@ dict

\* cache[addr] = result
Store(dict, key, result) == (key :> result) @@ dict

Calls(q) == IF q \in DOMAIN calls THEN calls[q] ELSE 0

IsNa(v) == v = None \/ v = NaN

\* a column built from a list: None becomes nan unless every value is None
AsColumn(values) ==
    IF \A k \in 1..Len(values) : values[k] = None THEN values
    ELSE [k \in 1..Len(values) |->
              IF values[k] = None THEN NaN ELSE values[k]]

\* df["lat"] = lats; df["lon"] = lons
WithCoords(rows, la, lo) ==
    [k \in 1..Len(rows) |->
        [lat |-> AsColumn(la)[k], lon |-> AsColumn(lo)[k]] @@ rows[k]]

\* df[df["lat"].isna() & df["lon"].isna()]
FailedBoth(rows) ==
    SelectSeq(rows, LAMBDA r : IsNa(r.lat) /\ IsNa(r.lon))

\* df[df["lat"].isna() | df["lon"].isna()]
Failed(rows) ==
    SelectSeq(rows, LAMBDA r : IsNa(r.lat) \/ IsNa(r.lon))

\* df.dropna(subset=["lat", "lon"])
DropNa(rows) ==
    SelectSeq(rows, LAMBDA r : ~IsNa(r.lat) /\ ~IsNa(r.lon))

(***************************************************************************)
(* excel-to-map.py: main, the files and build_map                          *)
(***************************************************************************)
\* the dict {}
EmptyDict == <<>>

NoFile == [exists |-> FALSE, columns |-> {}, rows |-> <<>>]

TextColumns ==
    {"Tenant", "Location", "Address", "City", "State", "clean_address",
     "full_address"}

\* a cell as DataFrame.to_csv writes it: a text in UTF-8, a float by its
\* digits, a missing value as nothing
WriteCell(col, v) ==
    IF IsNa(v) THEN <<>>
    ELSE IF col \in TextColumns THEN Utf8Encode(v) ELSE v

\* a cell as pd.read_csv(encoding="latin1") reads it
ReadCell(col, bytes) ==
    IF bytes = <<>> THEN NaN
    ELSE IF col \in TextColumns THEN Latin1Decode(bytes) ELSE bytes

\* df.to_csv(path, index=False) of a frame with these columns
WriteFrame(columns, rows) ==
    [ exists |-> TRUE,
      columns |-> columns,
      rows |-> [k \in 1..Len(rows) |->
                    [col \in columns |-> WriteCell(col, rows[k][col])]] ]

\* pd.read_csv(path, encoding="latin1")
ReadFrame(file) ==
    [k \in 1..Len(file.rows) |->
        [col \in file.columns |-> ReadCell(col, file.rows[k][col])]]

\* the dict comprehension of main over rows: a later row replaces an
\* earlier one with the same key
RECURSIVE CacheOf(_)
CacheOf(rows) ==
    IF rows = <<>> THEN EmptyDict
    ELSE LET r == rows[Len(rows)]
         IN  (Strip(Str(r.full_address)) :> <<r.lat, r.lon>>)
             @@ CacheOf(SubSeq(rows, 1, Len(rows) - 1))

\* existing_cache as main builds it; where main leaves it None the empty
\* dict stands for it, which "if existing_cache:" treats alike
ExistingCache(file) ==
    IF ~file.exists THEN EmptyDict
    ELSE IF ~ ({"full_address", "lat", "lon"} \subseteq file.columns)
         THEN EmptyDict
    ELSE CacheOf(DropNa(ReadFrame(file)))

\* cache = {}; if existing_cache: cache.update(existing_cache)
InitialCache(existing) == existing @@ EmptyDict

OutputColumns == TextColumns \cup {"lat", "lon"}

\* a < b in the order of Python's str comparison
RECURSIVE TextLess(_, _)
TextLess(a, b) ==
    IF b = <<>> THEN FALSE
    ELSE IF a = <<>> THEN TRUE
    ELSE IF Head(a) # Head(b) THEN Head(a) < Head(b)
    ELSE TextLess(Tail(a), Tail(b))

\* sorted(S) for a set of texts
RECURSIVE Sorted(_)
Sorted(S) ==
    IF S = {} THEN <<>>
    ELSE LET least == CHOOSE a \in S : \A b \in S \ {a} : TextLess(a, b)
         IN  <<least>> \o Sorted(S \ {least})

color_cycle ==
    << "red", "blue", "green", "purple", "orange", "darkred", "lightred",
       "beige", "darkblue", "darkgreen", "cadetblue", "darkpurple", "white",
       "pink", "lightblue", "lightgreen", "gray", "black", "lightgray" >>

\* folium.Marker(...) for one row
Marker(r) ==
    [ location |-> <<r.lat, r.lon>>,
      tooltip |-> r.Tenant,
      popup |-> <<r.Tenant, r.Address, r.City, r.State>> ]

\* one layer per row instead of one per tenant
FeatureGroupsPerRow(rows) ==
    [k \in 1..Len(rows) |->
        [ name |-> rows[k].Tenant,
          color |-> color_cycle[((k - 1) % Len(color_cycle)) + 1],
          markers |-> <<Marker(rows[k])>> ]]

\* the feature groups build_map adds: one per tenant, tenants sorted, the
\* markers of a tenant in frame order
FeatureGroups(rows) ==
    LET tenants == Sorted({rows[k].Tenant : k \in 1..Len(rows)})
    IN  [k \in 1..Len(tenants) |->
            LET tenant_df == SelectSeq(rows,
                                 LAMBDA r : r.Tenant = tenants[k])
            IN  [ name |-> tenants[k],
                  color |-> color_cycle[((k - 1) % Len(color_cycle)) + 1],
                  markers |-> [m \in 1..Len(tenant_df) |->
                                   Marker(tenant_df[m])] ]]

(***************************************************************************)
(* Bounds                                                                  *)
(***************************************************************************)
MaxLen == 4
MaxRows == 3

\* characters of the texts handed to normalize_text: a capital, a small
\* letter, a digit, a space, a tab and a full stop
NormChars == {Ord("A"), Ord("a"), Ord("1"), 32, 9, Ord(".")}

RECURSIVE TextsUpTo(_, _)
TextsUpTo(chars, n) ==
    IF n = 0 THEN {<<>>}
    ELSE LET shorter == TextsUpTo(chars, n - 1)
         IN  shorter \cup {Append(t, c) : t \in shorter, c \in chars}

RECURSIVE SeqsUpTo(_, _)
SeqsUpTo(S, n) ==
    IF n = 0 THEN {<<>>}
    ELSE LET shorter == SeqsUpTo(S, n - 1)
         IN  shorter \cup {Append(t, e) : t \in shorter, e \in S}

\* Address and State cells of the file handed to the deduplication
DedupeAddresses ==
    { Lit(<<"1", " ", "M", "a", "i", "n", " ", "S", "t">>),
      Lit(<<"1", " ", "m", "a", "i", "n", " ", "s", "t", "!">>),
      Lit(<<"1", " ", "M", "a", "i", "n", " ", "S", "t", " ", ".">>),
      Lit(<<"2", " ", "O", "a", "k">>) }

DedupeStates == {Lit(<<"F", "L">>), Lit(<<"f", "l">>), NaN}

DedupeRows == [Address : DedupeAddresses, State : DedupeStates]

MainRows == 2
MaxRuns == 2

\* the provider's answers the model draws from
StubLocation ==
    [ kind |-> "location",
      latitude |-> Lit(<<"2", "7", ".", "9">>),
      longitude |-> Lit(<<"-", "8", "2", ".", "4">>) ]

OtherLocation ==
    [ kind |-> "location",
      latitude |-> Lit(<<"3", "0", ".", "3">>),
      longitude |-> Lit(<<"-", "8", "1", ".", "7">>) ]

NoLocation == [kind |-> "no_match", latitude |-> None, longitude |-> None]

Raised(kind) == [kind |-> kind, latitude |-> None, longitude |-> None]

Outcomes ==
    {StubLocation, OtherLocation, NoLocation}
        \cup {Raised(kind) : kind \in RetriedErrors \cup OtherErrors}

\* full_address values of a frame handed straight to geocode_addresses
Queries ==
    {<<>>, <<32>>, Lit(<<"a">>), Lit(<<" ", "a">>), Lit(<<"b">>)}

DirectRows == [full_address : Queries]

\* existing_cache values handed straight to geocode_addresses
ExistingCaches ==
    { EmptyDict,
      Lit(<<"a">>) :> ResultOf(StubLocation),
      Lit(<<"b">>) :> <<StubLocation.latitude, None>> }

Tampa == Lit(<<"T", "a", "m", "p", "a">>)
FL == Lit(<<"F", "L">>)

MainRow(tenant, address) ==
    [ Tenant |-> tenant, Location |-> Lit(<<"Y", "a", "r", "d">>),
      Address |-> address, City |-> Tampa, State |-> FL ]

SuiteAddress ==
    Lit(<<"1", " ", "M", "a", "i", "n", " ", "S", "t", ",", " ",
          "S", "u", "i", "t", "e", " ", "5">>)

SmallAddress == Lit(<<"1", " ", "m", "a", "i", "n", " ", "s", "t">>)

\* "Cafe  Rd" with an acute accent on the e, its UTF-8 bytes read as
\* latin1, and two spaces before "Rd"
AccentAddress ==
    Lit(<<"C", "a", "f">>) \o <<195, 169>> \o Lit(<<" ", " ", "R", "d">>)

\* rows of the file at CSV_PATH handed to excel-to-map.main; the file has
\* its header on the header line
InputRows ==
    { MainRow(Lit(<<"A">>), SuiteAddress),
      MainRow(Lit(<<"A">>), SmallAddress),
      MainRow(Lit(<<"B">>), AccentAddress) }

\* a coordinates file left by something other than a run of main: no
\* full_address column
ForeignFile ==
    [ exists |-> TRUE,
      columns |-> {"Tenant", "lat", "lon"},
      rows |-> << [ Tenant |-> Lit(<<"A">>),
                    lat |-> StubLocation.latitude,
                    lon |-> StubLocation.longitude ] >> ]

\* an older coordinates file: one row with both coordinates, one without
\* its latitude
OlderFile ==
    [ exists |-> TRUE,
      columns |-> {"full_address", "lat", "lon"},
      rows |-> << [ full_address |->
                        SmallAddress \o CommaSpace \o Tampa \o CommaSpace
                            \o FL \o CountrySuffix,
                    lat |-> OtherLocation.latitude,
                    lon |-> OtherLocation.longitude ],
                  [ full_address |->
                        Lit(<<"1", " ", "M", "a", "i", "n", " ", "S", "t">>)
                            \o CommaSpace \o Tampa \o CommaSpace
                            \o FL \o CountrySuffix,
                    lat |-> <<>>,
                    lon |-> OtherLocation.longitude ] >> ]

CoordsFiles == {NoFile, ForeignFile, OlderFile}

\* the state of excel-to-map.py while it is not running
GeocodeIdle ==
    /\ caller = "none"
    /\ run = 0
    /\ batch = <<>>
    /\ existing_cache = EmptyDict
    /\ cache = EmptyDict
    /\ i = 0
    /\ lats = <<>>
    /\ lons = <<>>
    /\ addr = None
    /\ retry = 0
    /\ sinceLast = -1
    /\ waited = <<>>
    /\ calls = EmptyDict
    /\ lookups = 0
    /\ last = [how |-> "idle", result |-> <<None, None>>]
    /\ df_failed = <<>>
    /\ coordsFile = NoFile
    /\ failuresFile = NoFile
    /\ groups = <<>>
    /\ resolved1 = {}
    /\ stubbed = TRUE

(***************************************************************************)
(* normalize_text applied, then applied to its own result                  *)
(***************************************************************************)
InitNormalize ==
    /\ pc = "normalize"
    /\ x \in TextsUpTo(NormChars, MaxLen) \cup {None, NaN}
    /\ y = None
    /\ z = None
    /\ csv = <<>>
    /\ csvRead = <<>>
    /\ df = <<>>
    /\ before = 0
    /\ after = 0
    /\ GeocodeIdle

Normalize ==
    /\ pc = "normalize"
    /\ y' = normalize_text(x)
    /\ pc' = "renormalize"
    /\ UNCHANGED <<x, z, df, dedupeVars, geoVars, mainVars>>

Renormalize ==
    /\ pc = "renormalize"
    /\ z' = normalize_text(y)
    /\ pc' = "normalized"
    /\ UNCHANGED <<x, y, df, dedupeVars, geoVars, mainVars>>

NextNormalize == Normalize \/ Renormalize

SpecNormalize == InitNormalize /\ [][NextNormalize]_vars

(***************************************************************************)
(* dedupe_ios_csv.main: read, drop duplicates, write back in place         *)
(***************************************************************************)
InitDedupe ==
    /\ pc = "dedupe"
    /\ csv \in SeqsUpTo(DedupeRows, MaxRows)
    /\ csvRead = <<>>
    /\ df = <<>>
    /\ before = 0
    /\ after = 0
    /\ x = None
    /\ y = None
    /\ z = None
    /\ GeocodeIdle

DedupeMain ==
    /\ pc = "dedupe"
    /\ LET read == ReadCsv(csv)
           kept == DropDuplicates(read)
       IN  /\ csvRead' = read
           /\ before' = Len(read)
           /\ df' = kept
           /\ after' = Len(kept)
           /\ csv' = ToCsv(kept)
    /\ pc' = "deduped"
    /\ UNCHANGED <<normVars, geoVars, mainVars>>

NextDedupe == DedupeMain

SpecDedupe == InitDedupe /\ [][NextDedupe]_vars

(***************************************************************************)
(* excel-to-map.py: geocode_addresses and main                             *)
(***************************************************************************)
Min(a, b) == IF a < b THEN a ELSE b

\* the frame's columns; row is the row's identity, not a column
Columns(rows) ==
    IF rows = <<>> THEN {} ELSE (DOMAIN rows[1]) \ {"row"}

\* geocode_one returns result for the row after the first i rows
Return(result, how) ==
    /\ lats' = Append(lats, result[1])
    /\ lons' = Append(lons, result[2])
    /\ i' = i + 1
    /\ last' = [how |-> how, result |-> result]
    /\ pc' = "loop"

\* the loop body up to the geocode(addr) call: the empty query, the cache
\* hit, or the miss that enters the RateLimiter
GeocodeOne ==
    /\ pc = "loop"
    /\ i < Len(batch)
    /\ LET q == Query(batch[i + 1].full_address)
       IN  /\ addr' = q
           /\ waited' = <<>>
           /\ IF q = <<>>
              THEN /\ Return(<<None, None>>, "empty")
                   /\ UNCHANGED <<cache, calls, lookups, retry>>
              ELSE IF q \in DOMAIN cache
              THEN /\ Return(cache[q], "hit")
                   /\ lookups' = lookups + 1
                   /\ UNCHANGED <<cache, calls, retry>>
              ELSE /\ lookups' = lookups + 1
                   /\ calls' = (q :> (Calls(q) + 1)) @@ calls
                   /\ retry' = 0
                   /\ pc' = "request"
                   /\ UNCHANGED <<cache, i, lats, lons, last>>
    /\ UNCHANGED <<normVars, dedupeVars, df, batch, existing_cache,
                   sinceLast, stubbed, df_failed, failuresFile, mainVars>>

\* one try inside geocode(addr): the wait for a request slot, the request
\* to the provider, and what RateLimiter and geocode_one make of its
\* outcome; time passes in the sleeps only
Request ==
    /\ pc = "request"
    /\ \E loc \in Outcomes :
          LET since == IF sinceLast = -1 THEN min_delay_seconds
                       ELSE Min(min_delay_seconds, sinceLast)
              slot == min_delay_seconds - since
              pause == IF retry = 0 THEN slot ELSE error_wait_seconds + slot
          IN  /\ waited' = Append(waited, pause)
              /\ stubbed' = (stubbed /\ loc = StubLocation)
              /\ IF loc.kind \in RetriedErrors /\ ~IsLastTry(retry)
                 THEN /\ retry' = retry + 1
                      /\ sinceLast' =
                             Min(min_delay_seconds, error_wait_seconds)
                      /\ pc' = "request"
                      /\ UNCHANGED <<cache, i, lats, lons, last>>
                 ELSE IF loc.kind \in OtherErrors /\ ~Caught(loc.kind)
                 THEN /\ pc' = "aborted"
                      /\ sinceLast' = 0
                      /\ UNCHANGED <<cache, i, lats, lons, last, retry>>
                 ELSE /\ cache' = Store(cache, addr, ResultOf(loc))
                      /\ Return(ResultOf(loc),
                                IF loc.kind \in RetriedErrors
                                THEN "exhausted" ELSE loc.kind)
                      /\ sinceLast' = 0
                      /\ UNCHANGED retry
    /\ UNCHANGED <<normVars, dedupeVars, df, batch, existing_cache, addr,
                   calls, lookups, df_failed, failuresFile, mainVars>>

\* after the loop: the coordinate columns, df_failed, the failures file and
\* the frame returned; geocode_one and the RateLimiter go out of scope
Partition ==
    /\ pc = "loop"
    /\ i = Len(batch)
    /\ LET all == WithCoords(batch, lats, lons)
       IN  /\ df_failed' = Failed(all)
           /\ df' = DropNa(all)
           /\ failuresFile' =
                  IF df_failed' # <<>>
                  THEN WriteFrame(Columns(all), df_failed')
                  ELSE failuresFile
    /\ pc' = IF caller = "main" THEN "save" ELSE "returned"
    /\ addr' = None
    /\ retry' = 0
    /\ sinceLast' = -1
    /\ waited' = <<>>
    /\ last' = [how |-> "idle", result |-> <<None, None>>]
    /\ UNCHANGED <<normVars, dedupeVars, batch, existing_cache, cache, i,
                   lats, lons, calls, lookups, stubbed, mainVars>>

\* main: df = load_and_clean(CSV_PATH)
LoadAndClean ==
    /\ pc = "load"
    /\ df' = load_and_clean(csv)
    /\ pc' = "seed"
    /\ UNCHANGED <<normVars, dedupeVars, geoVars, mainVars>>

\* main builds existing_cache from the coordinates file and calls
\* geocode_addresses, which sets up its RateLimiter and its cache
SeedCache ==
    /\ pc = "seed"
    /\ existing_cache' = ExistingCache(coordsFile)
    /\ cache' = InitialCache(ExistingCache(coordsFile))
    /\ batch' = df
    /\ i' = 0
    /\ lats' = <<>>
    /\ lons' = <<>>
    /\ calls' = EmptyDict
    /\ lookups' = 0
    /\ sinceLast' = -1
    /\ stubbed' = TRUE
    /\ pc' = "loop"
    /\ UNCHANGED <<normVars, dedupeVars, df, addr, retry, waited, last,
                   df_failed, failuresFile, mainVars>>

\* main: df.to_csv(OUTPUT_CSV_WITH_COORDS, index=False)
SaveCoords ==
    /\ pc = "save"
    /\ coordsFile' = WriteFrame(OutputColumns, df)
    /\ resolved1' =
           IF run = 1 THEN {df[k].full_address : k \in 1..Len(df)}
           ELSE resolved1
    /\ pc' = "map"
    /\ UNCHANGED <<normVars, dedupeVars, df, geoVars, caller, run, groups>>

\* main: build_map(df, OUTPUT_MAP_HTML); the map's centre is left out
BuildMap ==
    /\ pc = "map"
    /\ groups' = FeatureGroups(df)
    /\ pc' = "done"
    /\ UNCHANGED <<normVars, dedupeVars, df, geoVars, caller, run,
                   coordsFile, resolved1>>

\* the script is started again on the same input file: a new process,
\* which finds only the files of the one before
Rerun ==
    /\ pc = "done"
    /\ run < MaxRuns
    /\ run' = run + 1
    /\ pc' = "load"
    /\ df' = <<>>
    /\ groups' = <<>>
    /\ batch' = <<>>
    /\ existing_cache' = EmptyDict
    /\ cache' = EmptyDict
    /\ i' = 0
    /\ lats' = <<>>
    /\ lons' = <<>>
    /\ calls' = EmptyDict
    /\ lookups' = 0
    /\ last' = [how |-> "idle", result |-> <<None, None>>]
    /\ stubbed' = TRUE
    /\ df_failed' = <<>>
    /\ UNCHANGED <<normVars, dedupeVars, limiterVars, failuresFile, caller,
                   coordsFile, resolved1>>

\* a bare call geocode_addresses(df, existing_cache): the state at the loop
InitGeocode ==
    /\ pc = "loop"
    /\ x = None
    /\ y = None
    /\ z = None
    /\ csv = <<>>
    /\ csvRead = <<>>
    /\ before = 0
    /\ after = 0
    /\ caller = "direct"
    /\ run = 0
    /\ batch \in {ReadCsv(rows) : rows \in SeqsUpTo(DirectRows, MaxRows)}
    /\ df = batch
    /\ existing_cache \in ExistingCaches
    /\ cache = InitialCache(existing_cache)
    /\ i = 0
    /\ lats = <<>>
    /\ lons = <<>>
    /\ addr = None
    /\ retry = 0
    /\ sinceLast = -1
    /\ waited = <<>>
    /\ calls = EmptyDict
    /\ lookups = 0
    /\ last = [how |-> "idle", result |-> <<None, None>>]
    /\ df_failed = <<>>
    /\ coordsFile = NoFile
    /\ failuresFile = NoFile
    /\ groups = <<>>
    /\ resolved1 = {}
    /\ stubbed = TRUE

Next == GeocodeOne \/ Request \/ Partition

Spec == InitGeocode /\ [][Next]_vars

\* a run of main on a file of at least one row
InitMain ==
    /\ pc = "load"
    /\ x = None
    /\ y = None
    /\ z = None
    /\ csv \in SeqsUpTo(InputRows, MainRows) \ {<<>>}
    /\ csvRead = <<>>
    /\ before = 0
    /\ after = 0
    /\ caller = "main"
    /\ run = 1
    /\ batch = <<>>
    /\ df = <<>>
    /\ existing_cache = EmptyDict
    /\ cache = EmptyDict
    /\ i = 0
    /\ lats = <<>>
    /\ lons = <<>>
    /\ addr = None
    /\ retry = 0
    /\ sinceLast = -1
    /\ waited = <<>>
    /\ calls = EmptyDict
    /\ lookups = 0
    /\ last = [how |-> "idle", result |-> <<None, None>>]
    /\ df_failed = <<>>
    /\ coordsFile \in CoordsFiles
    /\ failuresFile = NoFile
    /\ groups = <<>>
    /\ resolved1 = {}
    /\ stubbed = TRUE

NextMain ==
    \/ LoadAndClean
    \/ SeedCache
    \/ GeocodeOne
    \/ Request
    \/ Partition
    \/ SaveCoords
    \/ BuildMap
    \/ Rerun

SpecMain == InitMain /\ [][NextMain]_vars

(***************************************************************************)
(* Properties of dedupe_ios_csv.py                                         *)
(***************************************************************************)
\* the printed "Removed" count
Removed == before - after

\* C4: the deduplication keeps exactly the first row of each distinct
\* DedupeKey, in input order and unchanged, and kept + removed = input count
C4_FirstSeenWins ==
    pc = "deduped" =>
        /\ \A m \in 1..Len(csvRead) :
              (\E k \in 1..Len(df) : df[k].row = m)
              <=> ~ \E j \in 1..(m - 1) :
                        DedupeKey(csvRead[j]) = DedupeKey(csvRead[m])
        /\ \A k \in 1..Len(df) : df[k] = csvRead[df[k].row]
        /\ \A k \in 1..(Len(df) - 1) : df[k].row < df[k + 1].row
        /\ before = Len(csvRead)
        /\ after = Len(df)
        /\ after <= before
        /\ after + Removed = before
        /\ csv = ToCsv(df)

\* a run that dropped a later row whose key an earlier row already had,
\* although the two rows' cells differ
C4_Witness ==
    /\ pc = "deduped"
    /\ Removed >= 1
    /\ after >= 2
    /\ \E m, j \in 1..Len(csvRead) :
          /\ m < j
          /\ DedupeKey(csvRead[m]) = DedupeKey(csvRead[j])
          /\ csvRead[m].Address # csvRead[j].Address
          /\ \E k \in 1..Len(df) : df[k].row = m

\* C5: normalize_text is idempotent: normalizing a normalized text
\* returns it unchanged
C5_Idempotent == pc = "normalized" => z = y

(***************************************************************************)
(* Properties of geocode_addresses                                         *)
(***************************************************************************)
\* the trimmed query of the k-th row of the batch
RowQuery(k) == Strip(batch[k].full_address)

Absent == <<None, None>>

\* C1: within one batch geocode(addr) is called at most once for a query,
\* whatever that call's outcome; once it has ended the query is in the
\* cache, and every finished row with that query carries the cached result
C1_ProviderOncePerQuery ==
    /\ \A q \in DOMAIN calls :
          /\ calls[q] <= 1
          /\ (pc = "request" /\ addr = q) \/ q \in DOMAIN cache
    /\ \A k \in 1..i :
          RowQuery(k) # <<>> =>
              /\ RowQuery(k) \in DOMAIN cache
              /\ <<lats[k], lons[k]>> = cache[RowQuery(k)]

\* a row answered from the cache with the failure an earlier row of the
\* same batch had stored there
C1_Witness ==
    /\ pc = "loop"
    /\ last.how = "hit"
    /\ last.result = Absent
    /\ Calls(addr) = 1
    /\ i >= 2

\* C2: a row whose query is empty or only whitespace gets (None, None) and
\* the step leaves the cache untouched, tests no cache membership and makes
\* no geocode call
C2_EmptyQuery ==
    [][ (pc = "loop" /\ i < Len(batch) /\ RowQuery(i + 1) = <<>>) =>
            /\ cache' = cache
            /\ calls' = calls
            /\ lookups' = lookups
            /\ lats' = Append(lats, None)
            /\ lons' = Append(lons, None)
            /\ pc' = "loop" ]_vars

\* a whitespace-only query was answered while the cache held an entry
C2_Witness ==
    /\ pc = "loop"
    /\ last.how = "empty"
    /\ i >= 1
    /\ batch[i].full_address # <<>>
    /\ DOMAIN cache # {}

\* the rows of a frame, by identity
Rows(frame) == {frame[k].row : k \in 1..Len(frame)}

InOrder(frame) ==
    \A k \in 1..(Len(frame) - 1) : frame[k].row < frame[k + 1].row

\* C3: after geocode_addresses every row of the batch is in exactly one of
\* the returned frame (both coordinates present) and the failure frame (a
\* coordinate absent), the counts add up, and both keep the batch order
C3_Partition ==
    pc = "returned" =>
        /\ Rows(df) \cup Rows(df_failed) = 1..Len(batch)
        /\ Rows(df) \cap Rows(df_failed) = {}
        /\ Len(df) + Len(df_failed) = Len(batch)
        /\ InOrder(df)
        /\ InOrder(df_failed)
        /\ \A k \in 1..Len(df) :
              /\ ~IsNa(df[k].lat) /\ ~IsNa(df[k].lon)
              /\ df[k].full_address = batch[df[k].row].full_address
        /\ \A k \in 1..Len(df_failed) :
              /\ IsNa(df_failed[k].lat) \/ IsNa(df_failed[k].lon)
              /\ df_failed[k].full_address
                     = batch[df_failed[k].row].full_address

\* a batch with a resolved row, a row that failed outright and a row that
\* has a latitude but no longitude
C3_Witness ==
    /\ pc = "returned"
    /\ df # <<>>
    /\ \E k \in 1..Len(df_failed) :
          IsNa(df_failed[k].lat) /\ IsNa(df_failed[k].lon)
    /\ \E k \in 1..Len(df_failed) :
          ~IsNa(df_failed[k].lat) /\ IsNa(df_failed[k].lon)

\* C6 as stated: at most 3 requests to the provider for one query, 5 time
\* units before each repeated request, and (None, None) once they run out
C6_ThreeAttempts ==
    /\ Len(waited) <= 3
    /\ \A k \in 2..Len(waited) : waited[k] = 5
    /\ (pc = "loop" /\ last.how = "exhausted") => last.result = Absent

\* C6 amended: at most 4 requests to the provider for one query (the first
\* and 3 retries), 5 time units before each repeated request, and
\* (None, None), cached, once all 4 have failed
C6_FourAttempts ==
    /\ Len(waited) <= 4
    /\ \A k \in 2..Len(waited) : waited[k] = 5
    /\ (pc = "loop" /\ last.how = "exhausted") =>
           /\ Len(waited) = 4
           /\ last.result = Absent
           /\ lats[i] = None
           /\ lons[i] = None
           /\ cache[addr] = Absent

\* a query whose every request raised a retried error
C6_Witness ==
    /\ pc = "loop"
    /\ last.how = "exhausted"
    /\ Len(waited) = 4

FailureKinds == {"no_match", "exhausted"} \cup OtherErrors

\* C7: no failure of a row aborts the batch: a no-match, exhausted retries
\* or any other error give the row (None, None) with the loop still
\* running, and when the batch returns every row has been handled and each
\* row without coordinates is in the failure frame
C7_NoAbort ==
    /\ pc # "aborted"
    /\ (pc = "loop" /\ last.how \in FailureKinds) =>
           /\ last.result = Absent
           /\ lats[i] = None
           /\ lons[i] = None
    /\ pc = "returned" =>
           /\ i = Len(batch)
           /\ Len(lats) = Len(batch)
           /\ \A k \in 1..Len(batch) :
                 lats[k] = None => k \in Rows(df_failed)

\* a batch that returned after a row had failed at the provider and a
\* later row had been resolved there
C7_Witness ==
    /\ pc = "returned"
    /\ df # <<>>
    /\ ~IsNa(df[Len(df)].lat)
    /\ \E k \in 1..(df[Len(df)].row - 1) :
          /\ lats[k] = None
          /\ Calls(RowQuery(k)) = 1
          /\ k \in Rows(df_failed)

(***************************************************************************)
(* Properties of excel-to-map.main                                         *)
(***************************************************************************)
\* the two input rows of the end-to-end scenario
ScenarioRows ==
    << MainRow(Lit(<<"A">>), SuiteAddress),
       MainRow(Lit(<<"A">>), SmallAddress) >>

\* the first run on the scenario's rows, from an empty cache, with a
\* provider that has answered every request with StubLocation, is through
Scenario ==
    /\ pc = "done"
    /\ run = 1
    /\ csv = ScenarioRows
    /\ existing_cache = EmptyDict
    /\ stubbed

MainStreetQuery ==
    Lit(<<"1", " ", "M", "a", "i", "n", " ", "S", "t">>)
        \o CommaSpace \o Tampa \o CommaSpace \o FL \o CountrySuffix

SmallStreetQuery ==
    SmallAddress \o CommaSpace \o Tampa \o CommaSpace \o FL \o CountrySuffix

\* number of geocode(addr) calls made in the batch
RECURSIVE SumCalls(_)
SumCalls(keys) ==
    IF keys = {} THEN 0
    ELSE LET q == CHOOSE k \in keys : TRUE
         IN  calls[q] + SumCalls(keys \ {q})

TotalCalls == SumCalls(DOMAIN calls)

BothAtStub ==
    /\ Len(df) = 2
    /\ \A k \in 1..2 :
          <<df[k].lat, df[k].lon>> = ResultOf(StubLocation)

OneGroupTwoMarkers ==
    /\ Len(groups) = 1
    /\ groups[1].name = Lit(<<"A">>)
    /\ Len(groups[1].markers) = 2
    /\ \A k \in 1..2 :
          groups[1].markers[k].location = ResultOf(StubLocation)

\* C8 as stated: in the scenario both rows get the stub's coordinates, the
\* second from the cache after a single provider call, and the map has
\* one group "A" with two markers
C8_SecondRowCacheHit ==
    Scenario =>
        /\ BothAtStub
        /\ TotalCalls = 1
        /\ OneGroupTwoMarkers

\* C8 amended: in the scenario both rows get the stub's coordinates, but
\* their queries "1 Main St, Tampa, FL, USA" and "1 main st, Tampa, FL,
\* USA" differ in case, so the second row misses the cache and the
\* provider is called once for each; the map has one group "A" with two
\* markers
C8_TwoProviderCalls ==
    Scenario =>
        /\ BothAtStub
        /\ df[1].full_address = MainStreetQuery
        /\ df[2].full_address = SmallStreetQuery
        /\ Calls(MainStreetQuery) = 1
        /\ Calls(SmallStreetQuery) = 1
        /\ TotalCalls = 2
        /\ OneGroupTwoMarkers

C8_Witness == Scenario /\ Len(df) = 2

\* the rows of a coordinates file that have both coordinates
SeedRows(file) ==
    {k \in 1..Len(file.rows) :
        file.rows[k].lat # <<>> /\ file.rows[k].lon # <<>>}

\* C9: a run that finds the coordinates file of a prior run seeds its cache
\* with exactly the file's rows that have both coordinates, under their
\* full_address; the file a run writes holds resolved rows only; and a
\* later run on the same input makes no geocode call for a query the first
\* run resolved
C9_NoCallForResolved ==
    /\ (pc = "loop" /\ caller = "main" /\ i = 0 /\ coordsFile.exists
            /\ {"full_address", "lat", "lon"} \subseteq coordsFile.columns) =>
           /\ DOMAIN cache =
                  {Strip(ReadCell("full_address",
                                  coordsFile.rows[k].full_address)) :
                       k \in SeedRows(coordsFile)}
           /\ \A k \in SeedRows(coordsFile) :
                 ~IsNa(cache[Strip(ReadCell("full_address",
                           coordsFile.rows[k].full_address))][1])
    /\ pc \in {"map", "done"} =>
           \A k \in 1..Len(coordsFile.rows) :
               coordsFile.rows[k].lat # <<>> /\ coordsFile.rows[k].lon # <<>>
    /\ run >= 2 => \A q \in resolved1 : Calls(q) = 0

\* the three parts of C9, one by one
C9_Seeding ==
    (pc = "loop" /\ caller = "main" /\ i = 0 /\ coordsFile.exists
         /\ {"full_address", "lat", "lon"} \subseteq coordsFile.columns) =>
        DOMAIN cache =
            {Strip(ReadCell("full_address", coordsFile.rows[k].full_address)) :
                 k \in SeedRows(coordsFile)}

C9_OnlyResolvedWritten ==
    pc \in {"map", "done"} =>
        \A k \in 1..Len(coordsFile.rows) :
            coordsFile.rows[k].lat # <<>> /\ coordsFile.rows[k].lon # <<>>

C9_SecondRunSilent ==
    run >= 2 => \A q \in resolved1 : Calls(q) = 0

\* the cell of the k-th row of the frame load_and_clean built, as read
InputCell(k, col) == Body(csv)[k][col]

\* every row of the returned frame and of the failure frame
OutputRows ==
    {df[k] : k \in 1..Len(df)} \cup {df_failed[k] : k \in 1..Len(df_failed)}

\* geocode_addresses has just returned to main
AfterGeocoding == pc = "save"

\* C10 as stated: after load_and_clean and geocode_addresses every row's
\* Address equals the Address read from the input
C10_AddressAsRead ==
    AfterGeocoding =>
        \A r \in OutputRows : r.Address = InputCell(r.row, "Address")

\* C10 amended: after load_and_clean and geocode_addresses every row's
\* Address equals the Address read from the input after trimming and
\* fix_encoding (mojibake repair, whitespace runs collapsed), never its
\* suite-stripped form, which is held by clean_address and full_address
\* only
C10_AddressRepairedOnly ==
    AfterGeocoding =>
        \A r \in OutputRows :
            LET repaired ==
                    fix_encoding(Strip(Str(InputCell(r.row, "Address"))))
            IN  /\ r.Address = repaired
                /\ r.clean_address = strip_suite(repaired)
                /\ r.full_address =
                       r.clean_address \o CommaSpace \o r.City
                           \o CommaSpace \o r.State \o CountrySuffix

\* a run that kept a row whose Address was repaired and a row whose
\* clean_address lost a suite fragment
C10_Witness ==
    /\ AfterGeocoding
    /\ \E r \in OutputRows : r.Address # InputCell(r.row, "Address")
    /\ \E r \in OutputRows :
          /\ r.Address = InputCell(r.row, "Address")
          /\ r.clean_address # r.Address

====
